---- MODULE Spec2Model ----
(***************************************************************************)
(* Model of src/solutions/emidesejas.ts: the transaction lifecycle tracker *)
(* returned by emidesejas(api, outputApi).  The tracker consumes            *)
(* newTransaction, newBlock and finalized events, queries the provider     *)
(* (api.getBody, api.isTxValid, api.isTxSuccessful, api.unpin) and reports *)
(* to the sink (outputApi.onTxSettled, outputApi.onTxDone).                *)
(***************************************************************************)
EXTENDS Integers, Sequences, FiniteSets, TLC

(* ------------------------------ bounds -------------------------------- *)
MaxBlocks == 3
MaxTxs == 2
MaxEvents == 5
\* events of a run in which the events come in no particular order
MaxAnyEvents == 4

Hash == 1..MaxBlocks
Tx == 1..MaxTxs

(* ---------------------- values of the source -------------------------- *)
\* lastFinalizedBlock: string | null  (line 43)
Null == -2
\* a falsy parent hash, the case of `if (!currentBlock) break` (line 106)
NoParent == -1
\* a parent hash that no newBlock event ever announced: blocks.get(...) is
\* undefined for it (line 98)
Genesis == 0

VARIABLES
  blocks,               \* Map<string, {parent}>                  (line 39)
  trackedTransactions,  \* Map<string, {invalidInBlock}>, in insertion order (line 40)
  lastFinalizedBlock,   \* string | null                          (line 43)
  chain,                \* the provider's answers for the announced blocks
  events,               \* the events dispatched so far           (line 116)
  sinkLog,              \* outputApi calls, each stamped with its event
  unpinLog,             \* api.unpin calls, each stamped with its event
  apiCalls,             \* provider queries made by the latest event
  pre                   \* the tracker's state when the latest event arrived

vars == <<blocks, trackedTransactions, lastFinalizedBlock, chain, events,
          sinkLog, unpinLog, apiCalls, pre>>

(* ------------------------- sequence helpers --------------------------- *)
Range(s) == {s[i] : i \in 1..Len(s)}

RECURSIVE Reverse(_)
Reverse(s) == IF s = <<>> THEN <<>> ELSE Reverse(Tail(s)) \o <<Head(s)>>

(* --------------------- the provider (api: API) ------------------------ *)
\* api.getBody(blockHash): the body of an announced block; a block that was
\* never announced holds none of the tracked transactions.
GetBody(ch, b) == IF b \in DOMAIN ch THEN ch[b].body ELSE {}

\* api.isTxValid(blockHash, tx)
IsTxValid(ch, b, tx) == ~(b \in DOMAIN ch /\ tx \in ch[b].invalid)

\* api.isTxSuccessful(blockHash, tx): an answer fixed per (block, transaction).
\* The tracker only forwards it to the sink, so one table in which both
\* answers occur stands for the provider's.
IsTxSuccessful(ch, b, tx) == (b + tx) % 2 = 0

\* The declared ancestors of b, nearest first, as far as blocks were announced.
RECURSIVE AncestorsOf(_, _)
AncestorsOf(ch, b) ==
  IF b \notin DOMAIN ch THEN {}
  ELSE {ch[b].parent} \cup AncestorsOf(ch, ch[b].parent)

(* --------------- trackedTransactions: a Map in insertion order -------- *)
Keys(reg) == [i \in 1..Len(reg) |-> reg[i].tx]

RegHas(reg, tx) == \E i \in 1..Len(reg) : reg[i].tx = tx

RegGet(reg, tx) == reg[CHOOSE i \in 1..Len(reg) : reg[i].tx = tx]

\* Map.prototype.set: an existing key keeps its position and gets the new value.
RegSet(reg, tx, value) ==
  IF RegHas(reg, tx)
  THEN [i \in 1..Len(reg) |-> IF reg[i].tx = tx THEN [tx |-> tx] @@ value ELSE reg[i]]
  ELSE Append(reg, [tx |-> tx] @@ value)

\* Map.prototype.delete
\* (variant: the entry is kept)
RegDeleteKeeps(reg, tx) == reg
RegDelete(reg, tx) == SelectSeq(reg, LAMBDA e : e.tx # tx)

\* trackedTransactions.get(tx)?.invalidInBlock.add(blockHash)  (line 60)
\* (variant: the block is not recorded)
RegAddInvalidForgets(reg, tx, blockHash) == reg
RegAddInvalid(reg, tx, blockHash) ==
  [i \in 1..Len(reg) |->
     IF reg[i].tx = tx
     THEN [reg[i] EXCEPT !.invalidInBlock = @ \cup {blockHash}]
     ELSE reg[i]]

\* Map.prototype.forEach visits the entries in insertion order (lines 51, 80).
\* (variant: the entries visited newest first)
ForEachOrderReversed(reg) == Reverse(Keys(reg))
ForEachOrder(reg) == Keys(reg)

(* ------------------------------ onNewTx ------------------------------- *)
\* lines 65-67
\* (variant: the registry is replaced by the new entry alone)
OnNewTxAlone(reg, transaction) == RegSet(<<>>, transaction, [invalidInBlock |-> {}])
OnNewTx(reg, transaction) == RegSet(reg, transaction, [invalidInBlock |-> {}])

(* ----------------------------- onNewBlock ----------------------------- *)
\* The callback of trackedTransactions.forEach in onNewBlock (lines 51-62),
\* applied to keys[i..]; st = [reg, out, calls].
RECURSIVE NewBlockLoop(_, _, _, _, _, _)
NewBlockLoop(ch, ev, blockHash, body, keys, st) ==
  IF keys = <<>> THEN st
  ELSE
    LET tx == Head(keys) IN
    IF ~RegHas(st.reg, tx) THEN NewBlockLoop(ch, ev, blockHash, body, Tail(keys), st)
    ELSE IF tx \in body THEN
      NewBlockLoop(ch, ev, blockHash, body, Tail(keys),
        [st EXCEPT
           !.calls = Append(@, [api |-> "isTxSuccessful", blockHash |-> blockHash, tx |-> tx]),
           !.out = Append(@, [ev |-> ev, call |-> "onTxSettled", tx |-> tx,
                              outcome |-> [blockHash |-> blockHash, type |-> "valid",
                                           successful |-> IsTxSuccessful(ch, blockHash, tx)]])])
    ELSE IF ~IsTxValid(ch, blockHash, tx) THEN
      NewBlockLoop(ch, ev, blockHash, body, Tail(keys),
        [st EXCEPT
           !.calls = Append(@, [api |-> "isTxValid", blockHash |-> blockHash, tx |-> tx]),
           !.out = Append(@, [ev |-> ev, call |-> "onTxSettled", tx |-> tx,
                              outcome |-> [blockHash |-> blockHash, type |-> "invalid"]]),
           !.reg = RegAddInvalid(@, tx, blockHash)])
    ELSE
      NewBlockLoop(ch, ev, blockHash, body, Tail(keys),
        [st EXCEPT
           !.calls = Append(@, [api |-> "isTxValid", blockHash |-> blockHash, tx |-> tx])])

\* (variant of the handler below: the body is fetched a second time)
OnNewBlockFetchTwice(ch, ev, reg, blockHash) ==
  NewBlockLoop(ch, ev, blockHash, GetBody(ch, blockHash), ForEachOrder(reg),
    [reg |-> reg, out |-> <<>>,
     calls |-> <<[api |-> "getBody", blockHash |-> blockHash],
                 [api |-> "getBody", blockHash |-> blockHash]>>])

\* lines 45-63
OnNewBlock(ch, ev, reg, blockHash) ==
  NewBlockLoop(ch, ev, blockHash, GetBody(ch, blockHash), ForEachOrder(reg),
    [reg |-> reg, out |-> <<>>,
     calls |-> <<[api |-> "getBody", blockHash |-> blockHash]>>])

(* ----------------------------- onFinalized ---------------------------- *)
\* line 89: trackedTransactions.get(tx)?.invalidInBlock.has(blockHash), where
\* blockHash is the block the event names, not the block being visited.
\* (variant: the block being visited is tested)
InvalidDoneCondVisited(reg, tx, blockHash, currentBlock) ==
  RegHas(reg, tx) /\ currentBlock \in RegGet(reg, tx).invalidInBlock
\* (variant: the test negated)
InvalidDoneCondNegated(reg, tx, blockHash, currentBlock) ==
  RegHas(reg, tx) /\ blockHash \notin RegGet(reg, tx).invalidInBlock
InvalidDoneCond(reg, tx, blockHash, currentBlock) ==
  RegHas(reg, tx) /\ blockHash \in RegGet(reg, tx).invalidInBlock

\* The callback of trackedTransactions.forEach in onFinalized (lines 80-92);
\* st = [reg, out, calls].
RECURSIVE FinalizedLoop(_, _, _, _, _, _, _)
FinalizedLoop(ch, ev, blockHash, currentBlock, body, keys, st) ==
  IF keys = <<>> THEN st
  ELSE
    LET tx == Head(keys) IN
    IF ~RegHas(st.reg, tx)
    THEN FinalizedLoop(ch, ev, blockHash, currentBlock, body, Tail(keys), st)
    ELSE IF tx \in body THEN
      FinalizedLoop(ch, ev, blockHash, currentBlock, body, Tail(keys),
        [st EXCEPT
           !.calls = Append(@, [api |-> "isTxSuccessful", blockHash |-> currentBlock, tx |-> tx]),
           !.out = Append(@, [ev |-> ev, call |-> "onTxDone", tx |-> tx,
                              outcome |-> [blockHash |-> currentBlock, type |-> "valid",
                                           successful |-> IsTxSuccessful(ch, currentBlock, tx)]]),
           !.reg = RegDelete(@, tx)])
    ELSE IF InvalidDoneCond(st.reg, tx, blockHash, currentBlock) THEN
      FinalizedLoop(ch, ev, blockHash, currentBlock, body, Tail(keys),
        [st EXCEPT
           !.out = Append(@, [ev |-> ev, call |-> "onTxDone", tx |-> tx,
                              outcome |-> [blockHash |-> currentBlock, type |-> "invalid"]])])
    ELSE FinalizedLoop(ch, ev, blockHash, currentBlock, body, Tail(keys), st)

\* line 109: while (currentBlock !== lastFinalizedBlock)
\* (variant: the loop condition compares with null instead of the cursor)
WalkIgnoresCursor(currentBlock, lfb) == currentBlock # Null
WalkContinues(currentBlock, lfb) == currentBlock # lfb

\* line 102: blocks.delete(currentBlock)
\* (variant: the entry is left in the index)
IndexKeep(blks, currentBlock) == blks
IndexDelete(blks, currentBlock) == [b \in (DOMAIN blks) \ {currentBlock} |-> blks[b]]

\* More visits than any walk over an index of MaxBlocks entries can make:
\* every visit but the last deletes an entry.  A walk that goes beyond is cut
\* off and reported as not returning.
WalkFuel == MaxBlocks + 2

\* (variant of the loop below: only the block the event names is visited)
WalkOnlyNamed(ch, ev, blockHash, lfb, currentBlock, st) ==
  LET looped == FinalizedLoop(ch, ev, blockHash, currentBlock, GetBody(ch, currentBlock),
                   ForEachOrder(st.reg),
                   [reg |-> st.reg, out |-> st.out,
                    calls |-> Append(st.calls, [api |-> "getBody", blockHash |-> currentBlock])])
  IN [st EXCEPT !.reg = looped.reg, !.out = looped.out, !.calls = looped.calls,
                !.unpin = Append(@, currentBlock),
                !.blks = IndexDelete(st.blks, currentBlock)]

\* The do ... while loop of onFinalized (lines 77-109), one visit per call;
\* st = [reg, blks, out, calls, unpin, returns], lfb is lastFinalizedBlock as
\* read by the loop condition.
RECURSIVE Walk(_, _, _, _, _, _)
Walk(ch, ev, blockHash, lfb, currentBlock, st) ==
  LET looped == FinalizedLoop(ch, ev, blockHash, currentBlock, GetBody(ch, currentBlock),
                   ForEachOrder(st.reg),
                   [reg |-> st.reg, out |-> st.out,
                    calls |-> Append(st.calls, [api |-> "getBody", blockHash |-> currentBlock])])
      st1 == [st EXCEPT !.reg = looped.reg, !.out = looped.out, !.calls = looped.calls,
                        !.unpin = Append(@, currentBlock)]
  IN IF Len(st1.unpin) > WalkFuel THEN [st1 EXCEPT !.returns = FALSE]
     ELSE IF currentBlock \notin DOMAIN st.blks THEN st1
     ELSE
       LET parent == st.blks[currentBlock].parent
           st2 == [st1 EXCEPT !.blks = IndexDelete(st.blks, currentBlock)]
       IN IF parent = NoParent THEN st2
          ELSE IF WalkContinues(parent, lfb)
               THEN Walk(ch, ev, blockHash, lfb, parent, st2)
               ELSE st2

\* lines 69-114
OnFinalized(ch, ev, reg, blks, lfb0, blockHash) ==
  LET lfb == IF lfb0 = Null THEN blockHash ELSE lfb0
  IN Walk(ch, ev, blockHash, lfb, blockHash,
          [reg |-> reg, blks |-> blks, out |-> <<>>, calls |-> <<>>, unpin |-> <<>>,
           returns |-> TRUE])

(* ------------------------------ the events ---------------------------- *)
Init ==
  /\ blocks = <<>>
  /\ trackedTransactions = <<>>
  /\ lastFinalizedBlock = Null
  /\ chain = <<>>
  /\ events = <<>>
  /\ sinkLog = <<>>
  /\ unpinLog = <<>>
  /\ apiCalls = <<>>
  /\ pre = [trackedTransactions |-> <<>>, blocks |-> <<>>, lastFinalizedBlock |-> Null]

\* The tracker's state as an event finds it.
Snapshot ==
  [trackedTransactions |-> trackedTransactions, blocks |-> blocks,
   lastFinalizedBlock |-> lastFinalizedBlock]

EverRegistered == {events[i].value : i \in {j \in 1..Len(events) : events[j].type = "newTransaction"}}

\* case "newTransaction" (lines 122-125); a transaction arrives once.  The
\* identifiers are opaque to the tracker (Map keys and Set members only), so
\* the next unused one is taken.
NewTransaction(tx) ==
  /\ Len(events) < MaxEvents
  /\ tx = Cardinality(EverRegistered) + 1
  /\ trackedTransactions' = OnNewTx(trackedTransactions, tx)
  /\ events' = Append(events, [type |-> "newTransaction", value |-> tx])
  /\ apiCalls' = <<>>
  /\ pre' = Snapshot
  /\ UNCHANGED <<blocks, lastFinalizedBlock, chain, sinkLog, unpinLog>>

\* What the provider may answer for a new block on top of `parent`: the body
\* holds only transactions that arrived before the block and that no ancestor
\* holds or invalidates; a transaction invalid in an ancestor stays invalid.
Tracked == Range(Keys(trackedTransactions))

AncestorsOrSelf(parent) == (AncestorsOf(chain, parent) \cup {parent}) \cap DOMAIN chain

Includable(parent) ==
  Tracked \ UNION {chain[a].body \cup chain[a].invalid : a \in AncestorsOrSelf(parent)}

StillInvalid(parent) ==
  Tracked \cap UNION {chain[a].invalid : a \in AncestorsOrSelf(parent)}

\* The first announced block stands on a hash that is never announced
\* (Genesis) or has no parent; later blocks that do not extend an announced
\* block share that origin.
RootParents == IF chain = <<>> THEN {Genesis, NoParent} ELSE {chain[1].parent}

\* The dispatch of a newBlock event (lines 118-121, 45-63) when the provider's
\* answers are ch.
AnnounceBlock(ch, blockHash, parent) ==
  LET ev == Len(events) + 1
      r == OnNewBlock(ch, ev, trackedTransactions, blockHash)
  IN /\ chain' = ch
     /\ blocks' = [b \in DOMAIN blocks \cup {blockHash} |->
                     IF b = blockHash THEN [parent |-> parent] ELSE blocks[b]]
     /\ trackedTransactions' = r.reg
     /\ sinkLog' = sinkLog \o r.out
     /\ apiCalls' = r.calls
     /\ events' = Append(events, [type |-> "newBlock", blockHash |-> blockHash,
                                  parent |-> parent])
     /\ pre' = Snapshot
     /\ UNCHANGED <<lastFinalizedBlock, unpinLog>>

\* The provider's answers ch extended with those for blockHash.
WithBlock(ch, blockHash, parent, body, invalid) ==
  [b \in DOMAIN ch \cup {blockHash} |->
     IF b = blockHash THEN [parent |-> parent, body |-> body, invalid |-> invalid]
     ELSE ch[b]]

\* case "newBlock" (lines 118-121); a block is announced once, with a hash
\* not seen before (hashes are opaque to the tracker: the next unused one is
\* taken), on top of an announced block or of the origin.
NewBlock(parent, body, invalid) ==
  /\ Len(events) < MaxEvents
  /\ Cardinality(DOMAIN chain) < MaxBlocks
  /\ parent \in DOMAIN chain \cup RootParents
  /\ body \subseteq Includable(parent)
  /\ invalid \subseteq Tracked \ body
  /\ StillInvalid(parent) \subseteq invalid
  /\ LET blockHash == Cardinality(DOMAIN chain) + 1
     IN AnnounceBlock(WithBlock(chain, blockHash, parent, body, invalid), blockHash, parent)

\* The dispatch of a finalized event (lines 126-127, 69-114) when the
\* provider's answers are ch.  Lines 111-113 run once the loop has ended.
FinalizeBlock(ch, blockHash) ==
  LET ev == Len(events) + 1
      r == OnFinalized(ch, ev, trackedTransactions, blocks, lastFinalizedBlock, blockHash)
  IN /\ chain' = ch
     /\ trackedTransactions' = r.reg
     /\ blocks' = r.blks
     /\ sinkLog' = sinkLog \o r.out
     /\ apiCalls' = r.calls
     /\ unpinLog' = IF r.returns THEN Append(unpinLog, [ev |-> ev, blocks |-> r.unpin])
                                  ELSE unpinLog
     /\ lastFinalizedBlock' = IF r.returns THEN blockHash ELSE lastFinalizedBlock
     /\ events' = Append(events, [type |-> "finalized", blockHash |-> blockHash])
     /\ pre' = Snapshot

\* case "finalized" (lines 126-127); the event names an announced block that
\* descends from the previously finalized one.
Finalized(blockHash) ==
  /\ Len(events) < MaxEvents
  /\ blockHash \in DOMAIN chain
  /\ lastFinalizedBlock # Null => lastFinalizedBlock \in AncestorsOf(chain, blockHash)
  /\ FinalizeBlock(chain, blockHash)

Next ==
  \/ \E tx \in Tx : NewTransaction(tx)
  \/ \E parent \in DOMAIN chain \cup RootParents :
       \E body \in SUBSET Includable(parent) :
         \E invalid \in SUBSET (Tracked \ body) :
           NewBlock(parent, body, invalid)
  \/ \E blockHash \in DOMAIN chain : Finalized(blockHash)

Spec == Init /\ [][Next]_vars

(* ------------------- events in no particular order -------------------- *)
Announced ==
  {events[i].blockHash : i \in {j \in 1..Len(events) : events[j].type = "newBlock"}}

\* A newBlock event whose declared parent is any hash: itself, a block
\* announced later or never, a block of a cycle.  The provider answers as it
\* likes, keeping the body it already gave for the block.
NewBlockAny(parent, body, invalid) ==
  /\ Len(events) < MaxAnyEvents
  /\ Cardinality(Announced) < MaxBlocks
  /\ parent \in Hash \cup {Genesis, NoParent}
  /\ LET blockHash == Cardinality(Announced) + 1
     IN /\ body \subseteq Tracked
        /\ blockHash \in DOMAIN chain => body = chain[blockHash].body
        /\ invalid \subseteq Tracked \ body
        /\ AnnounceBlock(WithBlock(chain, blockHash, parent, body, invalid), blockHash, parent)

\* A finalized event naming any hash: a block never announced (the provider
\* then gives its body for the first time), the cursor again, a block that
\* does not descend from the cursor.
FinalizedAny(blockHash, body) ==
  /\ Len(events) < MaxAnyEvents
  /\ blockHash \in Hash
  /\ body \subseteq Tracked
  /\ blockHash \in DOMAIN chain => body = chain[blockHash].body
  /\ FinalizeBlock(IF blockHash \in DOMAIN chain THEN chain
                   ELSE WithBlock(chain, blockHash, NoParent, body, {}), blockHash)

NextAny ==
  \/ \E tx \in Tx : Len(events) < MaxAnyEvents /\ NewTransaction(tx)
  \/ \E parent \in Hash \cup {Genesis, NoParent} :
       \E body \in SUBSET Tracked :
         \E invalid \in SUBSET (Tracked \ body) :
           NewBlockAny(parent, body, invalid)
  \/ \E blockHash \in Hash : \E body \in SUBSET Tracked : FinalizedAny(blockHash, body)

SpecAny == Init /\ [][NextAny]_vars

(* ------------------- reading the logs of a run ------------------------ *)
SinkIdx == 1..Len(sinkLog)

SettledIdx(tx) == {i \in SinkIdx : sinkLog[i].call = "onTxSettled" /\ sinkLog[i].tx = tx}

DoneIdx(tx) == {i \in SinkIdx : sinkLog[i].call = "onTxDone" /\ sinkLog[i].tx = tx}

\* The calls of kind `call` for tx made by event ev.
CallsIn(ev, call, tx) ==
  {i \in SinkIdx : sinkLog[i].ev = ev /\ sinkLog[i].call = call /\ sinkLog[i].tx = tx}

Min(S) == CHOOSE m \in S : \A n \in S : m <= n

\* The position in the run of the newTransaction event that registered tx.
ArrivalOf(tx) ==
  CHOOSE i \in 1..Len(events) : events[i].type = "newTransaction" /\ events[i].value = tx

LastEvent == events[Len(events)]

LastIs(type) == events # <<>> /\ LastEvent.type = type

(* ------------------------------- C1 ----------------------------------- *)
\* C1: over the whole run onTxSettled is invoked at most once for every
\* transaction, whatever the outcome and whichever newBlock event makes the
\* call.
C1_SettledAtMostOnce == \A tx \in Tx : Cardinality(SettledIdx(tx)) <= 1

(* ------------------------------- C2 ----------------------------------- *)
\* C2: over the whole run onTxDone is invoked at most once for every
\* transaction, within one finalized event and across finalized events.
C2_DoneAtMostOnce == \A tx \in Tx : Cardinality(DoneIdx(tx)) <= 1

(* ------------------------------- C3 ----------------------------------- *)
\* C3: done is terminal: no onTxSettled call for a transaction follows an
\* onTxDone call for it.
C3_NoSettledAfterDone ==
  \A tx \in Tx : \A d \in DoneIdx(tx), s \in SettledIdx(tx) : s < d

(* ------------------------------- C4 ----------------------------------- *)
\* C4: within one newBlock event the onTxSettled calls come in the order in
\* which their transactions were registered.
C4_SettledInArrivalOrder ==
  \A i, j \in SinkIdx :
    (/\ i < j
     /\ sinkLog[i].ev = sinkLog[j].ev
     /\ sinkLog[i].call = "onTxSettled"
     /\ sinkLog[j].call = "onTxSettled")
    => ArrivalOf(sinkLog[i].tx) < ArrivalOf(sinkLog[j].tx)

\* A newBlock event has just settled two transactions.
C4_Witness ==
  /\ LastIs("newBlock")
  /\ \E t1, t2 \in Tx :
       /\ t1 # t2
       /\ CallsIn(Len(events), "onTxSettled", t1) # {}
       /\ CallsIn(Len(events), "onTxSettled", t2) # {}

(* ------------------------------- C5 ----------------------------------- *)
\* C5: within one finalized event the onTxDone calls come in the order in
\* which their transactions were registered, also across the blocks of the
\* walk: of two transactions that both get onTxDone in the event, the one
\* registered first gets its (first) call first.
C5_DoneInArrivalOrder ==
  \A ev \in 1..Len(events) : \A t1, t2 \in Tx :
    (/\ CallsIn(ev, "onTxDone", t1) # {}
     /\ CallsIn(ev, "onTxDone", t2) # {}
     /\ ArrivalOf(t1) < ArrivalOf(t2))
    => Min(CallsIn(ev, "onTxDone", t1)) < Min(CallsIn(ev, "onTxDone", t2))

(* ------------------- the chain the events describe -------------------- *)
\* The block b and its declared ancestors, nearest first, back to but
\* excluding `stop`: the blocks that a finalized event naming b finalizes when
\* `stop` is the previously finalized block (Null: none yet).  A parent hash
\* that was never announced is still an ancestor; NoParent is no block.
RECURSIVE Segment(_, _, _)
Segment(ch, b, stop) ==
  IF b = NoParent \/ b = stop THEN <<>>
  ELSE IF b \notin DOMAIN ch THEN <<b>>
  ELSE <<b>> \o Segment(ch, ch[b].parent, stop)

FinalizedEvents == {i \in 1..Len(events) : events[i].type = "finalized"}

Max(S) == CHOOSE m \in S : \A n \in S : m >= n

\* The block named by the finalized event before event i, Null if none.
CursorBefore(i) ==
  LET earlier == {j \in FinalizedEvents : j < i}
  IN IF earlier = {} THEN Null ELSE events[Max(earlier)].blockHash

Unpinned == UNION {Range(unpinLog[k].blocks) : k \in 1..Len(unpinLog)}

PreTracked == Range(Keys(pre.trackedTransactions))

(* ------------------------------- C6 ----------------------------------- *)
\* C6: when a finalized event finalizes the block that contains a tracked
\* transaction (the named block or an ancestor back to the previous cursor),
\* the event emits onTxDone for the transaction exactly once, with that
\* block's hash and the valid outcome.
C6_ContainingBlockFinalized ==
  LastIs("finalized") =>
    LET ev == Len(events)
        seg == Range(Segment(chain, LastEvent.blockHash, pre.lastFinalizedBlock))
    IN \A tx \in PreTracked : \A b \in seg \cap DOMAIN chain :
         tx \in chain[b].body =>
           /\ Cardinality(CallsIn(ev, "onTxDone", tx)) = 1
           /\ \A i \in CallsIn(ev, "onTxDone", tx) :
                /\ sinkLog[i].outcome.blockHash = b
                /\ sinkLog[i].outcome.type = "valid"

(* ------------------------------- C7 ----------------------------------- *)
\* C7: every onTxDone call is preceded by an onTxSettled call for the same
\* transaction with the same blockHash and the same outcome type.
C7_DoneMatchesSettled ==
  \A tx \in Tx : \A d \in DoneIdx(tx) :
    \E s \in SettledIdx(tx) :
      /\ s < d
      /\ sinkLog[s].outcome.blockHash = sinkLog[d].outcome.blockHash
      /\ sinkLog[s].outcome.type = sinkLog[d].outcome.type

(* ------------------------------- C8 ----------------------------------- *)
\* C8: api.unpin is called exactly once per finalized event and by no other
\* event, and its argument holds precisely the newly finalized block and its
\* ancestors back to, but excluding, the previously finalized block.
C8_UnpinPrecise ==
  /\ Len(unpinLog) = Cardinality(FinalizedEvents)
  /\ {unpinLog[k].ev : k \in 1..Len(unpinLog)} = FinalizedEvents
  /\ \A k \in 1..Len(unpinLog) :
       Range(unpinLog[k].blocks) =
         Range(Segment(chain, events[unpinLog[k].ev].blockHash, CursorBefore(unpinLog[k].ev)))

\* A second finalized event has skipped a block: its walk covered the named
\* block and the ancestor between it and the cursor.
C8_Witness ==
  /\ LastIs("finalized")
  /\ pre.lastFinalizedBlock # Null
  /\ Len(unpinLog[Len(unpinLog)].blocks) >= 2

(* ------------------------------- C9 ----------------------------------- *)
\* C9: after a finalized event every announced block that is pruned (on a fork
\* that does not lead to the finalized block) or older than the finalized
\* block has been passed to api.unpin, in this event or an earlier one.
C9_PrunedAndOlderUnpinned ==
  LastIs("finalized") =>
    LET f == LastEvent.blockHash
    IN \A b \in DOMAIN chain :
         (b # f /\ f \notin AncestorsOf(chain, b)) => b \in Unpinned

(* ------------------------------- C10 ---------------------------------- *)
InvalidAt(b) == [blockHash |-> b, type |-> "invalid"]

SettledInvalidAt(tx, b) == \E s \in SettledIdx(tx) : sinkLog[s].outcome = InvalidAt(b)

DoneInvalidNow(tx, b) ==
  \E d \in CallsIn(Len(events), "onTxDone", tx) : sinkLog[d].outcome = InvalidAt(b)

ApiIdx == 1..Len(apiCalls)

SettledNow(tx) == CallsIn(Len(events), "onTxSettled", tx)

\* C11: a newBlock event for b gives each transaction of the registry exactly
\* one of: a valid settled call with successful = isTxSuccessful(b, tx) if it
\* is in getBody(b); an invalid settled call and b added to its invalidity set
\* if it is not in the body and isTxValid(b, tx) is false; no call and no
\* change otherwise.  No other sink call is made and no transaction leaves
\* the registry.
C11_NewBlockOutcome ==
  LastIs("newBlock") =>
    LET b == LastEvent.blockHash
    IN /\ Keys(trackedTransactions) = Keys(pre.trackedTransactions)
       /\ \A i \in SinkIdx :
            sinkLog[i].ev = Len(events) =>
              sinkLog[i].call = "onTxSettled" /\ sinkLog[i].tx \in PreTracked
       /\ \A tx \in PreTracked :
            LET before == RegGet(pre.trackedTransactions, tx)
                after == RegGet(trackedTransactions, tx)
            IN IF tx \in GetBody(chain, b) THEN
                 /\ Cardinality(SettledNow(tx)) = 1
                 /\ \A i \in SettledNow(tx) :
                      sinkLog[i].outcome =
                        [blockHash |-> b, type |-> "valid",
                         successful |-> IsTxSuccessful(chain, b, tx)]
                 /\ after = before
               ELSE IF ~IsTxValid(chain, b, tx) THEN
                 /\ Cardinality(SettledNow(tx)) = 1
                 /\ \A i \in SettledNow(tx) : sinkLog[i].outcome = InvalidAt(b)
                 /\ after.invalidInBlock = before.invalidInBlock \cup {b}
               ELSE
                 /\ SettledNow(tx) = {}
                 /\ after = before

\* A newBlock event has settled one transaction as valid and another as
\* invalid.
C11_Witness ==
  /\ LastIs("newBlock")
  /\ \E t1, t2 \in PreTracked :
       /\ t1 \in GetBody(chain, LastEvent.blockHash)
       /\ t2 \notin GetBody(chain, LastEvent.blockHash)
       /\ ~IsTxValid(chain, LastEvent.blockHash, t2)
       /\ SettledNow(t1) # {} /\ SettledNow(t2) # {}

(* ------------------------------- C12 ---------------------------------- *)
\* The latest event is finalized(b3) and found b3, its parent b2 and b2's
\* parent b1 in the index, b1 being the oldest block there: its parent is not
\* in the index.
ThreeBlockWalk(b1, b2, b3) ==
  /\ LastIs("finalized")
  /\ LastEvent.blockHash = b3
  /\ {b1, b2, b3} \subseteq DOMAIN pre.blocks
  /\ pre.blocks[b3].parent = b2
  /\ pre.blocks[b2].parent = b1
  /\ pre.blocks[b1].parent \notin DOMAIN pre.blocks

UnpinNow == {k \in 1..Len(unpinLog) : unpinLog[k].ev = Len(events)}

\* The blocks whose body the latest event fetched, in the order of the calls.
BodiesFetched ==
  LET gets == SelectSeq(apiCalls, LAMBDA c : c.api = "getBody")
  IN [i \in 1..Len(gets) |-> gets[i].blockHash]

Visited == IF UnpinNow = {} THEN <<>> ELSE unpinLog[CHOOSE k \in UnpinNow : TRUE].blocks

\* The i-th visit of the walk found no entry for its block in the index: the
\* block was not there when the event arrived, or the walk had deleted it.
AbsentAt(i) ==
  \/ Visited[i] \notin DOMAIN pre.blocks
  \/ \E j \in 1..(i - 1) : Visited[j] = Visited[i]

\* lastFinalizedBlock as the loop condition of the latest event read it.
CursorRead ==
  IF pre.lastFinalizedBlock = Null THEN LastEvent.blockHash ELSE pre.lastFinalizedBlock

\* C13: a walk that reaches a block absent from the index still processes it
\* (body fetched, valid done calls for the tracked transactions in it, hash
\* added to the unpin list) and visits nothing after it; a block found in the
\* index is followed by its parent unless that is absent or the cursor; the
\* event ends with unpin called once and the cursor advanced.
C13_AbsentBlockEndsWalk ==
  LastIs("finalized") =>
    /\ Cardinality(UnpinNow) = 1
    /\ lastFinalizedBlock = LastEvent.blockHash
    /\ Len(Visited) >= 1
    /\ Visited[1] = LastEvent.blockHash
    /\ BodiesFetched = Visited
    /\ \A i \in 1..Len(Visited) :
         IF AbsentAt(i)
         THEN /\ i = Len(Visited)
              /\ \A tx \in PreTracked :
                   (/\ tx \in GetBody(chain, Visited[i])
                    /\ \A j \in 1..(i - 1) : tx \notin GetBody(chain, Visited[j]))
                   => \E d \in CallsIn(Len(events), "onTxDone", tx) :
                        /\ sinkLog[d].outcome.blockHash = Visited[i]
                        /\ sinkLog[d].outcome.type = "valid"
         ELSE LET p == pre.blocks[Visited[i]].parent
              IN IF p = NoParent \/ p = CursorRead
                 THEN i = Len(Visited)
                 ELSE i < Len(Visited) /\ Visited[i + 1] = p

\* A finalized event has named a block that is not in the index and holds a
\* tracked transaction.
C13_Witness ==
  /\ LastIs("finalized")
  /\ LastEvent.blockHash \notin DOMAIN pre.blocks
  /\ \E tx \in PreTracked : tx \in GetBody(chain, LastEvent.blockHash)

(* ------------------------------- C14 ---------------------------------- *)
InvalidDonesNow(tx) ==
  {d \in CallsIn(Len(events), "onTxDone", tx) : sinkLog[d].outcome.type = "invalid"}

InNoVisitedBody(tx) == \A b \in Range(Visited) : tx \notin GetBody(chain, b)

ValidDoneSinceArrival(tx) ==
  \E d \in DoneIdx(tx) :
    sinkLog[d].outcome.type = "valid" /\ sinkLog[d].ev > ArrivalOf(tx)

\* C15: a transaction is in the registry exactly when a newTransaction event
\* registered it and no valid onTxDone has been emitted for it since; a
\* transaction that leaves the registry does so in the event that emits its
\* valid onTxDone, and newBlock events and invalid onTxDone calls remove none.
C15_RegistryMembership ==
  /\ \A tx \in Tx :
       RegHas(trackedTransactions, tx) <=>
         (tx \in EverRegistered /\ ~ValidDoneSinceArrival(tx))
  /\ \A tx \in PreTracked :
       ~RegHas(trackedTransactions, tx) =>
         /\ LastIs("finalized")
         /\ \E d \in CallsIn(Len(events), "onTxDone", tx) : sinkLog[d].outcome.type = "valid"

\* One finalized event has removed a transaction with a valid done call and
\* kept another to which it gave an invalid done call.
C15_Witness ==
  /\ LastIs("finalized")
  /\ \E t1, t2 \in PreTracked :
       /\ ~RegHas(trackedTransactions, t1)
       /\ RegHas(trackedTransactions, t2)
       /\ InvalidDonesNow(t2) # {}

(* ------------------------------- C16 ---------------------------------- *)
\* The positions in the run of the newBlock events that announced b.
AnnouncedAt(b) ==
  {i \in 1..Len(events) : events[i].type = "newBlock" /\ events[i].blockHash = b}

\* A finalization walk of an event after event i visited b.
VisitedSince(b, i) ==
  \E k \in 1..Len(unpinLog) : unpinLog[k].ev > i /\ b \in Range(unpinLog[k].blocks)

\* C16: a block is in the index exactly when a newBlock event announced it
\* and no finalization walk has visited it since; after a finalized event
\* none of the blocks passed to unpin in it is in the index, and the blocks
\* the walk did not visit are still there with their parent.
C16_BlockIndex ==
  /\ \A b \in Hash \cup {Genesis} :
       b \in DOMAIN blocks <=> \E i \in AnnouncedAt(b) : ~VisitedSince(b, i)
  /\ LastIs("finalized") =>
       /\ Range(Visited) \cap DOMAIN blocks = {}
       /\ \A b \in (DOMAIN pre.blocks) \ Range(Visited) :
            b \in DOMAIN blocks /\ blocks[b] = pre.blocks[b]

\* A finalized event has unpinned a block and left its fork sibling, announced
\* before the event, in the index.
C16_Witness ==
  /\ LastIs("finalized")
  /\ \E f \in Range(Visited) \cap DOMAIN pre.blocks :
       \E b \in DOMAIN blocks :
         /\ b # f
         /\ pre.blocks[b].parent = pre.blocks[f].parent
         /\ f \notin DOMAIN blocks

(* ------------------------------- C17 ---------------------------------- *)
\* C17: every finalized event is processed to completion, whatever the index
\* holds (a block that is its own parent, a cycle of parents) and whichever
\* block the event names (the cursor again, a block that does not descend
\* from it): the walk ends after at most one visit more than the index had
\* entries, api.unpin is called and the cursor is assigned.
C17_WalkTerminates ==
  /\ \A i \in FinalizedEvents : \E k \in 1..Len(unpinLog) : unpinLog[k].ev = i
  /\ LastIs("finalized") =>
       /\ Len(Visited) <= Cardinality(DOMAIN pre.blocks) + 1
       /\ lastFinalizedBlock = LastEvent.blockHash

\* A finalized event has walked round a cycle of two blocks: it came back to
\* a block it had visited and deleted, and ended there.
C17_Witness ==
  /\ LastIs("finalized")
  /\ \E i, j \in DOMAIN Visited :
       /\ i + 1 < j
       /\ Visited[i] = Visited[j]
       /\ pre.blocks[Visited[i]].parent = Visited[i + 1]
       /\ pre.blocks[Visited[i + 1]].parent = Visited[i]

(* ------------------------------- C18 ---------------------------------- *)
\* How many times the latest event made the provider call c.
ApiCount(c) == Cardinality({i \in ApiIdx : apiCalls[i] = c})

\* The valid onTxDone calls of the latest event for tx at block b.
ValidDonesNow(b, tx) ==
  {d \in CallsIn(Len(events), "onTxDone", tx) :
     sinkLog[d].outcome.type = "valid" /\ sinkLog[d].outcome.blockHash = b}

\* C18: a newBlock event for b calls getBody once, for b, and for each
\* transaction of the registry exactly one of isTxSuccessful(b, tx) (in the
\* body) or isTxValid(b, tx) (not in the body), once, and nothing else; a
\* finalized event calls getBody once per visit of the walk, isTxSuccessful
\* once per valid onTxDone, and never isTxValid.
C18_NoRedundantQueries ==
  /\ LastIs("newBlock") =>
       LET b == LastEvent.blockHash IN
       /\ BodiesFetched = <<b>>
       /\ Len(apiCalls) = 1 + Cardinality(PreTracked)
       /\ \A tx \in PreTracked :
            /\ ApiCount([api |-> "isTxSuccessful", blockHash |-> b, tx |-> tx])
                 = IF tx \in GetBody(chain, b) THEN 1 ELSE 0
            /\ ApiCount([api |-> "isTxValid", blockHash |-> b, tx |-> tx])
                 = IF tx \in GetBody(chain, b) THEN 0 ELSE 1
  /\ LastIs("finalized") =>
       /\ BodiesFetched = Visited
       /\ \A i \in ApiIdx : apiCalls[i].api \in {"getBody", "isTxSuccessful"}
       /\ \A i \in ApiIdx : apiCalls[i].api = "isTxSuccessful" =>
            ValidDonesNow(apiCalls[i].blockHash, apiCalls[i].tx) # {}
       /\ \A b \in Hash \cup {Genesis} : \A tx \in Tx :
            ApiCount([api |-> "isTxSuccessful", blockHash |-> b, tx |-> tx])
              = Cardinality(ValidDonesNow(b, tx))

\* A newBlock event has asked isTxSuccessful for one transaction of the
\* registry and isTxValid for another.
C18_Witness ==
  /\ LastIs("newBlock")
  /\ \E t1, t2 \in PreTracked :
       /\ t1 \in GetBody(chain, LastEvent.blockHash)
       /\ t2 \notin GetBody(chain, LastEvent.blockHash)
       /\ \E i, j \in ApiIdx : /\ apiCalls[i].api = "isTxSuccessful" /\ apiCalls[i].tx = t1
                               /\ apiCalls[j].api = "isTxValid" /\ apiCalls[j].tx = t2

(* ------------------------------- C19 ---------------------------------- *)
\* The sink calls of the latest event.
SinkNow == {i \in SinkIdx : sinkLog[i].ev = Len(events)}

\* C19: a newTransaction event makes no sink call and no provider call and
\* changes only the registry, to which it adds the transaction with an empty
\* invalidity set; a newBlock event emits no onTxDone, calls no unpin, and
\* removes no block from the index and no transaction from the registry;
\* neither changes the cursor, which is absent until the first finalized
\* event and is the block of the most recent finalized event afterwards.
C19_FrameConditions ==
  /\ LastIs("newTransaction") =>
       /\ SinkNow = {}
       /\ apiCalls = <<>>
       /\ UnpinNow = {}
       /\ blocks = pre.blocks
       /\ lastFinalizedBlock = pre.lastFinalizedBlock
       /\ trackedTransactions =
            Append(pre.trackedTransactions, [tx |-> LastEvent.value, invalidInBlock |-> {}])
  /\ LastIs("newBlock") =>
       /\ \A i \in SinkNow : sinkLog[i].call # "onTxDone"
       /\ UnpinNow = {}
       /\ \A b \in DOMAIN pre.blocks :
            b \in DOMAIN blocks /\ (b # LastEvent.blockHash => blocks[b] = pre.blocks[b])
       /\ Keys(trackedTransactions) = Keys(pre.trackedTransactions)
       /\ lastFinalizedBlock = pre.lastFinalizedBlock
  /\ lastFinalizedBlock =
       IF FinalizedEvents = {} THEN Null ELSE events[Max(FinalizedEvents)].blockHash

\* A newTransaction event has arrived when the registry, the index and the
\* cursor all held something.
C19_Witness ==
  /\ LastIs("newTransaction")
  /\ PreTracked # {}
  /\ DOMAIN pre.blocks # {}
  /\ pre.lastFinalizedBlock # Null
  /\ RegHas(trackedTransactions, LastEvent.value)

(* ------------------------------- C20 ---------------------------------- *)
\* The arguments of all the unpin calls of the run, one after the other.
RECURSIVE UnpinnedUpTo(_)
UnpinnedUpTo(k) == IF k = 0 THEN <<>> ELSE UnpinnedUpTo(k - 1) \o unpinLog[k].blocks

\* C20: when every block is announced once, before it is finalized, and
\* every finalized event names a strict descendant of the previously
\* finalized block, no hash is passed to api.unpin twice, within one call or
\* in two calls of the run.
C20_UnpinnedOnce ==
  LET all == UnpinnedUpTo(Len(unpinLog))
  IN \A i, j \in DOMAIN all : all[i] = all[j] => i = j

\* A second finalized event has unpinned two blocks or more, after a first
\* one that unpinned some.
C20_Witness ==
  /\ LastIs("finalized")
  /\ Len(unpinLog) >= 2
  /\ Len(Visited) >= 2
  /\ \A k \in 1..Len(unpinLog) : unpinLog[k].blocks # <<>>

====
